---- MODULE Spec2Model ----
(***************************************************************************)
(* EmulatedGenyCameraDevice: the lifecycle state machine of the emulated   *)
(* camera device (Initialize / connectDevice / disconnectDevice /          *)
(* startDevice / stopDevice) together with its frame acquisition worker    *)
(* (inWorkerThread).                                                       *)
(*                                                                         *)
(* The device code is EmulatedGenyCameraDevice.cpp.  Its collaborators     *)
(* (the GenyClient session, the EmulatedCameraDevice base class and the    *)
(* WorkerThread that runs inWorkerThread in a loop) are not part of that   *)
(* file; they are modelled from the design document.                       *)
(*                                                                         *)
(* Any thread may call the device.  An operation that holds mObjectLock    *)
(* and an operation that takes no lock are steps of different threads, so  *)
(* an operation that takes no lock (Initialize, getCurrentPreviewFrame)    *)
(* is one step per access to a shared field or to the session, and         *)
(* startDevice, whose writes such an operation can see one by one, is one  *)
(* step per write.  Starting, signalling and joining the worker thread are *)
(* calls of the base class, apart from startDevice and stopDevice.         *)
(***************************************************************************)
EXTENDS Integers, Sequences, FiniteSets, TLC

(***************************************************************************)
(* Bounds of the model.                                                    *)
(***************************************************************************)
\* Number of preview buffers that may be allocated over a run.
MaxAllocs == 1

\* Number of frame pulls the worker may issue over a run.
MaxPulls == 2

\* Number of times the worker thread may be started over a run.
MaxLaunches == 1

\* Number of threads, besides the worker, that may be inside a call on the
\* device at the same time.
MaxCallers == 2

(***************************************************************************)
(* Status codes and enumerations.                                          *)
(***************************************************************************)
NO_ERROR == "NO_ERROR"

EINVAL == "EINVAL"

ENOMEM == "ENOMEM"

\* Failure status of a call to the external frame source.
RemoteUnavailable == "RemoteUnavailable"

ECDS_CONSTRUCTED == "ECDS_CONSTRUCTED"

ECDS_INITIALIZED == "ECDS_INITIALIZED"

ECDS_CONNECTED == "ECDS_CONNECTED"

ECDS_STARTED == "ECDS_STARTED"

DeviceStates == {ECDS_CONSTRUCTED, ECDS_INITIALIZED, ECDS_CONNECTED, ECDS_STARTED}

\* The null pointer.
NULL == 0

\* Results of WorkerThread::Select.
EXIT_THREAD == "EXIT_THREAD"

TIMEOUT == "TIMEOUT"

\* Frames per second of the emulated device.
mEmulatedFPS == 50

\* The worker's wait, in microseconds: 1000000 / mEmulatedFPS.
SelectTimeout == 1000000 \div mEmulatedFPS

\* Frame geometries a caller may ask for (width, height).
Geometries == {<<2, 1>>, <<2, 2>>}


\* The threads that may be inside Initialize at the same time.
InitThreads == {1, 2}

VARIABLES
    mState,             \* EmulatedCameraDevice::mState
    mPreviewFrame,      \* NULL or the id of the allocation it points to
    heap,               \* ids of the preview buffer allocations that are live
    allocs,             \* number of preview buffers allocated so far
    mTotalPixels,       \* frame geometry kept by the base class
    session,            \* state of the mGenyClient session
    sizes,              \* sizes[id]: number of pixels of allocation id
    mObjectLock,        \* TRUE while an operation holds the lock
    startPc,            \* startDevice in progress: "idle", "alloc", "query"
    stopPc,             \* stopDevice: "idle", or "called" (waiting for the lock)
    initPc,             \* initPc[t]: where thread t is inside Initialize
    rd,                 \* the getCurrentPreviewFrame in progress
    wPc,                \* worker thread: "none", "select", "read", "query", "exited"
    exitMsg,            \* the thread exit message has been sent
    captureId,          \* number of times the worker thread has been started
    wBuf,               \* the preview buffer passed to the queryFrame in progress
    wN,                 \* the number of bytes passed to the queryFrame in progress
    now,                \* the monotonic clock, in microseconds
    pulls,              \* number of frame pulls issued so far
    mCurFrameTimestamp, \* timestamp of the current frame
    notes,              \* notifications delivered to the camera HAL, in order
    last,               \* the call on the device that returned in the latest step
    scen,               \* progress of the reference run, -1 when off it
    destroyed,          \* the destructor has run
    crashed             \* the process has died of an invalid memory access

devVars == <<mState, mPreviewFrame, heap, allocs, mTotalPixels, session>>

callVars == <<mObjectLock, startPc, stopPc, initPc, rd>>

workerVars == <<wPc, exitMsg, captureId, wBuf, wN, now, pulls, mCurFrameTimestamp,
                notes>>

lifeVars == <<destroyed, crashed>>

vars == <<devVars, sizes, callVars, workerVars, last, scen, lifeVars>>

(***************************************************************************)
(* The device's own fields, as one record.                                 *)
(***************************************************************************)
Dev == [mState |-> mState, mPreviewFrame |-> mPreviewFrame, heap |-> heap,
        allocs |-> allocs, mTotalPixels |-> mTotalPixels, session |-> session]

(***************************************************************************)
(* GenyClient: the session to the external frame source.  A call that      *)
(* fails has no effect on the session.                                     *)
(*   closed -> open (connectClient) -> connected (queryConnect)            *)
(*          -> capturing (queryStart)                                      *)
(***************************************************************************)
connectClient(s, ok) == IF ok /\ s = "closed" THEN "open" ELSE s

queryConnect(s, ok) == IF ok THEN "connected" ELSE s

\* Disconnects the device; on a session that has no device connected it
\* closes the session.
queryDisconnect(s, ok) ==
    IF ~ok THEN s
    ELSE IF s \in {"connected", "capturing"} THEN "open" ELSE "closed"

queryStart(s, ok) == IF ok THEN "capturing" ELSE s

queryStop(s, ok) == IF ok THEN "connected" ELSE s

RemoteStatus(ok) == IF ok THEN NO_ERROR ELSE RemoteUnavailable

(***************************************************************************)
(* EmulatedCameraDevice: the generic base class.                           *)
(***************************************************************************)
isInitialized(st) == st # ECDS_CONSTRUCTED

isConnected(st) == st \in {ECDS_CONNECTED, ECDS_STARTED}

isStarted(st) == st = ECDS_STARTED

\* EmulatedCameraDevice::Initialize: legal on a constructed device only.
BaseInitialize(st, ok) ==
    IF st # ECDS_CONSTRUCTED THEN [res |-> EINVAL, mState |-> st]
    ELSE IF ok THEN [res |-> NO_ERROR, mState |-> ECDS_INITIALIZED]
    ELSE [res |-> ENOMEM, mState |-> st]

\* commonStartDevice: the frame geometry from the resolution.
commonStartDevice(d, width, height, ok) ==
    IF ok THEN [res |-> NO_ERROR, d |-> [d EXCEPT !.mTotalPixels = width * height]]
    ELSE [res |-> ENOMEM, d |-> d]

commonStopDevice(d) == [d EXCEPT !.mTotalPixels = 0]

(***************************************************************************)
(* The result of an operation, or of a part of it: its status, the         *)
(* device's fields after it and the calls it made to the GenyClient        *)
(* session.  pc says where a part of startDevice goes on: "return" when    *)
(* startDevice returns.                                                    *)
(***************************************************************************)
Ret(res, d, calls) == [res |-> res, d |-> d, calls |-> calls]

Part(pc, res, d, calls) == [pc |-> pc, res |-> res, d |-> d, calls |-> calls]

\* delete[] p: a no-op on the null pointer.
Delete(h, p) == IF p = NULL THEN h ELSE h \ {p}

\* memcpy, or a write by queryFrame, of n bytes at allocation p is defined
\* when p is live and holds n bytes (a pixel has 4 bytes).
AccessDefined(h, sz, p, n) == n = 0 \/ (p \in h /\ n > 0 /\ n <= sz[p] * 4)

(***************************************************************************)
(* A read of a field of the device by the worker thread.  Once the         *)
(* destructor has run the object's memory is released and the read is      *)
(* undefined: it gives the value the field had, or what the memory holds   *)
(* after it has been taken again: zeroes, or a pattern that is no          *)
(* allocation's address and, as mTotalPixels * 4, a negative size.         *)
(***************************************************************************)
\* An address that is no allocation's.
WildPointer == -2

\* mTotalPixels * 4 read from memory filled with 0xFF.
WildSize == -4

ReadPointer(gone, p) == IF gone THEN {p, NULL, WildPointer} ELSE {p}

ReadSize(gone, n) == IF gone THEN {n, 0, WildSize} ELSE {n}

(***************************************************************************)
(* EmulatedGenyCameraDevice::connectDevice                                 *)
(***************************************************************************)
\* Variant without the isInitialized guard.
connectDevice_NoInitCheck(d, ok) ==
    IF isConnected(d.mState) THEN Ret(NO_ERROR, d, <<>>)
    ELSE Ret(RemoteStatus(ok),
             [d EXCEPT !.session = queryConnect(d.session, ok),
                       !.mState = IF ok THEN ECDS_CONNECTED ELSE d.mState],
             <<"queryConnect">>)

connectDevice(d, ok) ==
    IF ~isInitialized(d.mState) THEN Ret(EINVAL, d, <<>>)
    ELSE IF isConnected(d.mState) THEN Ret(NO_ERROR, d, <<>>)
    ELSE Ret(RemoteStatus(ok),
             [d EXCEPT !.session = queryConnect(d.session, ok),
                       !.mState = IF ok THEN ECDS_CONNECTED ELSE d.mState],
             <<"queryConnect">>)

(***************************************************************************)
(* EmulatedGenyCameraDevice::disconnectDevice                              *)
(***************************************************************************)
\* Variant that sets the state whatever queryDisconnect returns.
disconnectDevice_StateOnFailure(d, ok) ==
    IF ~isConnected(d.mState) THEN Ret(NO_ERROR, d, <<>>)
    ELSE IF isStarted(d.mState) THEN Ret(EINVAL, d, <<>>)
    ELSE Ret(RemoteStatus(ok),
             [d EXCEPT !.session = queryDisconnect(d.session, ok),
                       !.mState = ECDS_INITIALIZED],
             <<"queryDisconnect">>)

disconnectDevice(d, ok) ==
    IF ~isConnected(d.mState) THEN Ret(NO_ERROR, d, <<>>)
    ELSE IF isStarted(d.mState) THEN Ret(EINVAL, d, <<>>)
    ELSE Ret(RemoteStatus(ok),
             [d EXCEPT !.session = queryDisconnect(d.session, ok),
                       !.mState = IF ok THEN ECDS_INITIALIZED ELSE d.mState],
             <<"queryDisconnect">>)

(***************************************************************************)
(* EmulatedGenyCameraDevice::startDevice, in the three parts between which *)
(* a thread that takes no lock can see the device: the guards and          *)
(* commonStartDevice, which sets the frame geometry; the allocation of the *)
(* preview buffer; queryStart and the new state.                           *)
(* new uint32_t[mTotalPixels] either yields a fresh allocation or NULL;    *)
(* its result is assigned to mPreviewFrame in both cases.                  *)
(***************************************************************************)
\* Variant without the isStarted guard: a started device is started again.
startDevice_Enter_NoStartedCheck(d, width, height, commonOk) ==
    IF ~isConnected(d.mState) THEN Part("return", EINVAL, d, <<>>)
    ELSE LET c == commonStartDevice(d, width, height, commonOk)
         IN  IF c.res # NO_ERROR THEN Part("return", c.res, c.d, <<>>)
             ELSE Part("alloc", NO_ERROR, c.d, <<>>)

startDevice_Enter(d, width, height, commonOk) ==
    IF ~isConnected(d.mState) THEN Part("return", EINVAL, d, <<>>)
    ELSE IF isStarted(d.mState) THEN Part("return", NO_ERROR, d, <<>>)
    ELSE LET c == commonStartDevice(d, width, height, commonOk)
         IN  IF c.res # NO_ERROR THEN Part("return", c.res, c.d, <<>>)
             ELSE Part("alloc", NO_ERROR, c.d, <<>>)

startDevice_Alloc(d, allocOk) ==
    IF ~allocOk
    THEN Part("return", ENOMEM, [d EXCEPT !.mPreviewFrame = NULL], <<>>)
    ELSE LET id == d.allocs + 1
         IN  Part("query", NO_ERROR,
                  [d EXCEPT !.mPreviewFrame = id, !.heap = @ \cup {id}, !.allocs = id],
                  <<>>)

startDevice_Query(d, startOk) ==
    Part("return", RemoteStatus(startOk),
         [d EXCEPT !.session = queryStart(d.session, startOk),
                   !.mState = IF startOk THEN ECDS_STARTED ELSE d.mState],
         <<"queryStart">>)

(***************************************************************************)
(* EmulatedGenyCameraDevice::stopDevice                                    *)
(* The buffer is deleted only when mPreviewFrame == NULL.                  *)
(***************************************************************************)
\* Variant without the isStarted guard: a device that is not started is
\* stopped.
stopDevice_NoStartedCheck(d, ok) ==
    IF ~ok
    THEN Ret(RemoteUnavailable,
             [d EXCEPT !.session = queryStop(d.session, ok)],
             <<"queryStop">>)
    ELSE LET f == IF d.mPreviewFrame = NULL
                  THEN [d EXCEPT !.heap = Delete(d.heap, d.mPreviewFrame),
                                 !.mPreviewFrame = NULL]
                  ELSE d
             g == commonStopDevice(f)
         IN  Ret(NO_ERROR,
                 [g EXCEPT !.session = queryStop(g.session, ok),
                           !.mState = ECDS_CONNECTED],
                 <<"queryStop">>)

stopDevice(d, ok) ==
    IF ~isStarted(d.mState) THEN Ret(NO_ERROR, d, <<>>)
    ELSE IF ~ok
    THEN Ret(RemoteUnavailable,
             [d EXCEPT !.session = queryStop(d.session, ok)],
             <<"queryStop">>)
    ELSE LET f == IF d.mPreviewFrame = NULL
                  THEN [d EXCEPT !.heap = Delete(d.heap, d.mPreviewFrame),
                                 !.mPreviewFrame = NULL]
                  ELSE d
             g == commonStopDevice(f)
         IN  Ret(NO_ERROR,
                 [g EXCEPT !.session = queryStop(g.session, ok),
                           !.mState = ECDS_CONNECTED],
                 <<"queryStop">>)

(***************************************************************************)
(* EmulatedGenyCameraDevice::getDeviceInfo                                 *)
(***************************************************************************)
getDeviceInfo(d, ok) ==
    IF ~isInitialized(d.mState) THEN Ret(EINVAL, d, <<>>)
    ELSE Ret(RemoteStatus(ok), d, <<"queryInfo">>)

(***************************************************************************)
(* EmulatedGenyCameraDevice::getCurrentPreviewFrame                        *)
(***************************************************************************)
\* What EmulatedCameraDevice::getCurrentPreviewFrame returns.
BaseGetCurrentPreviewFrame == "base result"

\* Variant that copies without testing mPreviewFrame.
getCurrentPreviewFrame_NoNullCheck(p) == TRUE

\* The test of mPreviewFrame: TRUE when the frame is copied out of it.
getCurrentPreviewFrame_Test(p) == p # NULL

(***************************************************************************)
(* EmulatedGenyCameraDevice::~EmulatedGenyCameraDevice                     *)
(***************************************************************************)
Destructor(d) ==
    IF d.mPreviewFrame # NULL
    THEN [d EXCEPT !.heap = Delete(d.heap, d.mPreviewFrame)]
    ELSE d

(***************************************************************************)
(* EmulatedGenyCameraDevice::inWorkerThread: one iteration of the worker,  *)
(* given what Select and queryFrame return and the clock when queryFrame   *)
(* returns.  ret is the function's result (TRUE: iterate again); note is   *)
(* the notification sent to the camera HAL; frame is TRUE when queryFrame  *)
(* has filled the buffers.                                                 *)
(***************************************************************************)
\* Variant that keeps iterating after a failed pull.
inWorkerThread_ContinuesOnError(selectRes, query_res, clock, ts) ==
    IF selectRes = EXIT_THREAD
    THEN [ret |-> FALSE, pulled |-> FALSE, frame |-> FALSE, note |-> <<>>, ts |-> ts]
    ELSE IF query_res = NO_ERROR
    THEN [ret |-> TRUE, pulled |-> TRUE, frame |-> TRUE,
          note |-> <<[kind |-> "onNextFrameAvailable", ts |-> clock]>>,
          ts |-> clock]
    ELSE [ret |-> TRUE, pulled |-> TRUE, frame |-> FALSE,
          note |-> <<[kind |-> "onCameraDeviceError", ts |-> 0]>>,
          ts |-> ts]

\* Variant that notifies with the previous frame's timestamp.
inWorkerThread_StaleTimestamp(selectRes, query_res, clock, ts) ==
    IF selectRes = EXIT_THREAD
    THEN [ret |-> FALSE, pulled |-> FALSE, frame |-> FALSE, note |-> <<>>, ts |-> ts]
    ELSE IF query_res = NO_ERROR
    THEN [ret |-> TRUE, pulled |-> TRUE, frame |-> TRUE,
          note |-> <<[kind |-> "onNextFrameAvailable", ts |-> ts]>>,
          ts |-> clock]
    ELSE [ret |-> FALSE, pulled |-> TRUE, frame |-> FALSE,
          note |-> <<[kind |-> "onCameraDeviceError", ts |-> 0]>>,
          ts |-> ts]

\* Variant that notifies the camera HAL when it receives the exit message.
inWorkerThread_NotifiesOnExit(selectRes, query_res, clock, ts) ==
    IF selectRes = EXIT_THREAD
    THEN [ret |-> FALSE, pulled |-> FALSE, frame |-> FALSE,
          note |-> <<[kind |-> "onNextFrameAvailable", ts |-> ts]>>, ts |-> ts]
    ELSE IF query_res = NO_ERROR
    THEN [ret |-> TRUE, pulled |-> TRUE, frame |-> TRUE,
          note |-> <<[kind |-> "onNextFrameAvailable", ts |-> clock]>>,
          ts |-> clock]
    ELSE [ret |-> FALSE, pulled |-> TRUE, frame |-> FALSE,
          note |-> <<[kind |-> "onCameraDeviceError", ts |-> 0]>>,
          ts |-> ts]

inWorkerThread(selectRes, query_res, clock, ts) ==
    IF selectRes = EXIT_THREAD
    THEN [ret |-> FALSE, pulled |-> FALSE, frame |-> FALSE, note |-> <<>>, ts |-> ts]
    ELSE IF query_res = NO_ERROR
    THEN [ret |-> TRUE, pulled |-> TRUE, frame |-> TRUE,
          note |-> <<[kind |-> "onNextFrameAvailable", ts |-> clock]>>,
          ts |-> clock]
    ELSE [ret |-> FALSE, pulled |-> TRUE, frame |-> FALSE,
          note |-> <<[kind |-> "onCameraDeviceError", ts |-> 0]>>,
          ts |-> ts]

(***************************************************************************)
(* The worker thread that runs inWorkerThread in a loop.  It is started,   *)
(* sent the exit message and joined by calls of the base class; Select     *)
(* returns EXIT_THREAD once the exit message has been sent and TIMEOUT     *)
(* otherwise.                                                              *)
(***************************************************************************)
Select(msg) == IF msg THEN EXIT_THREAD ELSE TIMEOUT

\* The worker thread has ended and can be joined.
Joinable(pc) == pc = "exited"

(***************************************************************************)
(* Initial state: a constructed device (the constructor sets mPreviewFrame *)
(* to NULL), no session, no worker, no call in progress.                   *)
(***************************************************************************)
\* No call has returned in the latest step.
NoReturn == [op |-> "none", res |-> NO_ERROR, calls |-> <<>>, ok |-> TRUE]

\* A thread that is not inside Initialize.  res is the status of the base
\* class's Initialize while the thread is at "disc".
InitIdle == [pc |-> "idle", res |-> NO_ERROR]

\* No getCurrentPreviewFrame in progress.
RdIdle == [pc |-> "idle", from |-> NULL, n |-> 0]

Init ==
    /\ mState = ECDS_CONSTRUCTED
    /\ mPreviewFrame = NULL
    /\ heap = {}
    /\ allocs = 0
    /\ mTotalPixels = 0
    /\ session = "closed"
    /\ sizes = <<>>
    /\ mObjectLock = FALSE
    /\ startPc = "idle"
    /\ stopPc = "idle"
    /\ initPc = [t \in InitThreads |-> InitIdle]
    /\ rd = RdIdle
    /\ wPc = "none"
    /\ exitMsg = FALSE
    /\ captureId = 0
    /\ wBuf = NULL
    /\ wN = 0
    /\ now = 0
    /\ pulls = 0
    /\ mCurFrameTimestamp = 0
    /\ notes = <<>>
    /\ last = NoReturn
    /\ scen = 0
    /\ destroyed = FALSE
    /\ crashed = FALSE

\* The device exists and the process runs.
Alive == ~destroyed /\ ~crashed

\* The calls on the device that are in progress.
InProgress ==
    {<<"Initialize", t>> : t \in {u \in InitThreads : initPc[u].pc # "idle"}}
        \cup (IF startPc # "idle" THEN {<<"Start", 0>>} ELSE {})
        \cup (IF stopPc # "idle" THEN {<<"Stop", 0>>} ELSE {})
        \cup (IF rd.pc # "idle" THEN {<<"getCurrentPreviewFrame", 0>>} ELSE {})

\* A thread is there to make a call on the device.
Free == Alive /\ Cardinality(InProgress) < MaxCallers

\* The device's fields take the values an operation, or a part of one, left.
SetDev(d) ==
    /\ mState' = d.mState
    /\ mPreviewFrame' = d.mPreviewFrame
    /\ heap' = d.heap
    /\ allocs' = d.allocs
    /\ mTotalPixels' = d.mTotalPixels
    /\ session' = d.session

\* The record of a call that returns res after the calls it made to the
\* GenyClient session.  ok: every call it made to a collaborator (the
\* session, the base class, the allocator) succeeded.
Returned(op, res, calls, ok) == [op |-> op, res |-> res, calls |-> calls, ok |-> ok]

\* Progress of the reference run Initialize, Connect, Start, a frame, Stop,
\* Disconnect: step k is taken by the k-th call when every call it makes
\* succeeds; anything else leaves the run.
ScenStep(k, allOk) == IF scen = k - 1 /\ allOk THEN k ELSE -1

(***************************************************************************)
(* Initialize.  It takes no lock; its three calls are three steps.  The    *)
(* result of a collaborator's call is an input of an operation only when   *)
(* the operation makes that call.  The threads are interchangeable: the    *)
(* second is used only while the first is inside Initialize.               *)
(***************************************************************************)
\* mGenyClient.connectClient; Initialize returns its error.
InitializeConnect(t) ==
    /\ Free
    /\ initPc[t].pc = "idle"
    /\ \A u \in InitThreads : u < t => initPc[u].pc # "idle"
    /\ \E connOk \in BOOLEAN :
        /\ session' = connectClient(session, connOk)
        /\ IF connOk
           THEN /\ initPc' = [initPc EXCEPT ![t].pc = "base"]
                /\ last' = NoReturn /\ UNCHANGED scen
           ELSE /\ last' = Returned("Initialize", RemoteUnavailable,
                                    <<"connectClient">>, FALSE)
                /\ scen' = -1
                /\ UNCHANGED initPc
    /\ UNCHANGED <<mState, mPreviewFrame, heap, allocs, mTotalPixels, sizes,
                   mObjectLock, startPc, stopPc, rd, workerVars, lifeVars>>

\* EmulatedCameraDevice::Initialize; on success Initialize returns.
InitializeBase(t) ==
    /\ Alive
    /\ initPc[t].pc = "base"
    /\ \E baseOk \in BOOLEAN :
        LET b == BaseInitialize(mState, baseOk)
        IN  /\ mState # ECDS_CONSTRUCTED => baseOk
            /\ mState' = b.mState
            /\ IF b.res = NO_ERROR
               THEN /\ initPc' = [initPc EXCEPT ![t] = InitIdle]
                    /\ last' = Returned("Initialize", NO_ERROR,
                                        <<"connectClient">>, TRUE)
                    /\ scen' = ScenStep(1, TRUE)
               ELSE /\ initPc' = [initPc EXCEPT ![t] = [pc |-> "disc", res |-> b.res]]
                    /\ last' = NoReturn /\ UNCHANGED scen
    /\ UNCHANGED <<mPreviewFrame, heap, allocs, mTotalPixels, session, sizes,
                   mObjectLock, startPc, stopPc, rd, workerVars, lifeVars>>

\* mGenyClient.queryDisconnect, whose status is dropped; Initialize returns
\* the error of the base class.
InitializeDisconnect(t) ==
    /\ Alive
    /\ initPc[t].pc = "disc"
    /\ \E discOk \in BOOLEAN :
        /\ session' = queryDisconnect(session, discOk)
        /\ last' = Returned("Initialize", initPc[t].res,
                            <<"connectClient", "queryDisconnect">>,
                            discOk /\ initPc[t].res = EINVAL)
    /\ initPc' = [initPc EXCEPT ![t] = InitIdle]
    /\ scen' = -1
    /\ UNCHANGED <<mState, mPreviewFrame, heap, allocs, mTotalPixels, sizes,
                   mObjectLock, startPc, stopPc, rd, workerVars, lifeVars>>

(***************************************************************************)
(* Operations that hold mObjectLock from their first line to their return  *)
(* and whose writes no other thread sees one by one: one step each.        *)
(***************************************************************************)
DoConnect ==
    /\ Free
    /\ ~mObjectLock
    /\ \E ok \in BOOLEAN :
        LET r == connectDevice(Dev, ok)
        IN  /\ (r.calls = <<>> => ok)
            /\ SetDev(r.d)
            /\ last' = Returned("Connect", r.res, r.calls, ok)
            /\ scen' = ScenStep(2, ok)
    /\ UNCHANGED <<sizes, callVars, workerVars, lifeVars>>

DoDisconnect ==
    /\ Free
    /\ ~mObjectLock
    /\ \E ok \in BOOLEAN :
        LET r == disconnectDevice(Dev, ok)
        IN  /\ (r.calls = <<>> => ok)
            /\ SetDev(r.d)
            /\ last' = Returned("Disconnect", r.res, r.calls, ok)
            /\ scen' = ScenStep(6, ok)
    /\ UNCHANGED <<sizes, callVars, workerVars, lifeVars>>

DoGetDeviceInfo ==
    /\ Free
    /\ ~mObjectLock
    /\ \E ok \in BOOLEAN :
        LET r == getDeviceInfo(Dev, ok)
        IN  /\ (r.calls = <<>> => ok)
            /\ SetDev(r.d)
            /\ last' = Returned("getDeviceInfo", r.res, r.calls, ok)
    /\ scen' = -1
    /\ UNCHANGED <<sizes, callVars, workerVars, lifeVars>>

(***************************************************************************)
(* startDevice.  It holds mObjectLock from its first line to its return;   *)
(* its writes of mTotalPixels, of mPreviewFrame and of mState are three    *)
(* steps.  It does not start the worker thread.                            *)
(***************************************************************************)
\* startDevice takes the lock, tests the state and calls commonStartDevice.
StartBegin ==
    /\ Free
    /\ ~mObjectLock
    /\ \E g \in Geometries, commonOk \in BOOLEAN :
        LET r == startDevice_Enter(Dev, g[1], g[2], commonOk)
        IN  /\ (~isConnected(mState) \/ isStarted(mState)) => commonOk
            /\ r.pc = "return" => g = <<2, 1>>
            /\ SetDev(r.d)
            /\ IF r.pc = "return"
               THEN /\ last' = Returned("Start", r.res, r.calls, commonOk)
                    /\ scen' = -1
                    /\ UNCHANGED <<mObjectLock, startPc>>
               ELSE /\ mObjectLock' = TRUE
                    /\ startPc' = r.pc
                    /\ last' = NoReturn /\ UNCHANGED scen
    /\ UNCHANGED <<sizes, stopPc, initPc, rd, workerVars, lifeVars>>

\* startDevice allocates the preview buffer.
StartAlloc ==
    /\ ~crashed
    /\ startPc = "alloc"
    /\ \E allocOk \in BOOLEAN :
        LET r == startDevice_Alloc(Dev, allocOk)
        IN  /\ allocOk => allocs < MaxAllocs
            /\ SetDev(r.d)
            /\ sizes' = IF allocOk THEN Append(sizes, mTotalPixels) ELSE sizes
            /\ IF r.pc = "return"
               THEN /\ last' = Returned("Start", r.res, r.calls, FALSE)
                    /\ scen' = -1
                    /\ startPc' = "idle"
                    /\ mObjectLock' = FALSE
               ELSE /\ startPc' = r.pc
                    /\ last' = NoReturn /\ UNCHANGED <<scen, mObjectLock>>
    /\ UNCHANGED <<stopPc, initPc, rd, workerVars, lifeVars>>

\* startDevice calls queryStart, sets the state, and returns.
StartQuery ==
    /\ ~crashed
    /\ startPc = "query"
    /\ \E startOk \in BOOLEAN :
        LET r == startDevice_Query(Dev, startOk)
        IN  /\ SetDev(r.d)
            /\ last' = Returned("Start", r.res, r.calls, startOk)
            /\ scen' = ScenStep(3, startOk)
    /\ mObjectLock' = FALSE
    /\ startPc' = "idle"
    /\ UNCHANGED <<sizes, stopPc, initPc, rd, workerVars, lifeVars>>

(***************************************************************************)
(* stopDevice.  It is called whatever the worker thread does, waits for    *)
(* the lock and runs under it; it neither signals nor joins the worker.    *)
(***************************************************************************)
\* stopDevice is called and waits for the lock.
StopCall ==
    /\ Free
    /\ stopPc = "idle"
    /\ stopPc' = "called"
    /\ UNCHANGED <<devVars, sizes, mObjectLock, startPc, initPc, rd, workerVars,
                   scen, lifeVars>>
    /\ last' = NoReturn

\* stopDevice takes the lock, runs and returns.
DoStop ==
    /\ ~crashed
    /\ stopPc = "called"
    /\ ~mObjectLock
    /\ \E ok \in BOOLEAN :
        LET r == stopDevice(Dev, ok)
        IN  /\ (r.calls = <<>> => ok)
            /\ SetDev(r.d)
            /\ last' = Returned("Stop", r.res, r.calls, ok)
            /\ scen' = ScenStep(5, ok)
    /\ stopPc' = "idle"
    /\ UNCHANGED <<sizes, mObjectLock, startPc, initPc, rd, workerVars, lifeVars>>

(***************************************************************************)
(* getCurrentPreviewFrame.  It takes no lock: it tests mPreviewFrame, then *)
(* reads mPreviewFrame and mTotalPixels for memcpy, in an order the        *)
(* compiler chooses, and other threads run between these reads.  A memcpy  *)
(* from an address that holds no buffer of that size is undefined: it      *)
(* returns, or the process dies.                                           *)
(***************************************************************************)
GetFrameTest ==
    /\ Free
    /\ rd.pc = "idle"
    /\ IF getCurrentPreviewFrame_Test(mPreviewFrame)
       THEN /\ rd' = [pc |-> "test", from |-> NULL, n |-> 0]
            /\ last' = NoReturn /\ UNCHANGED scen
       ELSE /\ rd' = RdIdle
            /\ last' = Returned("getCurrentPreviewFrame", BaseGetCurrentPreviewFrame,
                                <<>>, TRUE)
            /\ scen' = -1
    /\ UNCHANGED <<devVars, sizes, mObjectLock, startPc, stopPc, initPc,
                   workerVars, lifeVars>>

\* The first of the two reads for memcpy's arguments.
GetFrameReadFirst ==
    /\ ~crashed
    /\ rd.pc = "test"
    /\ \/ rd' = [pc |-> "pf", from |-> mPreviewFrame, n |-> 0]
       \/ rd' = [pc |-> "tp", from |-> NULL, n |-> mTotalPixels * 4]
    /\ UNCHANGED <<devVars, sizes, mObjectLock, startPc, stopPc, initPc,
                   workerVars, scen, lifeVars>>
    /\ last' = NoReturn

\* The second read; memcpy begins.
GetFrameReadSecond ==
    /\ ~crashed
    /\ rd.pc \in {"pf", "tp"}
    /\ rd' = IF rd.pc = "pf"
             THEN [pc |-> "copy", from |-> rd.from, n |-> mTotalPixels * 4]
             ELSE [pc |-> "copy", from |-> mPreviewFrame, n |-> rd.n]
    /\ UNCHANGED <<devVars, sizes, mObjectLock, startPc, stopPc, initPc,
                   workerVars, scen, lifeVars>>
    /\ last' = NoReturn

\* memcpy is over and getCurrentPreviewFrame returns 0, or the process has
\* died in memcpy.
GetFrameEnd ==
    /\ ~crashed
    /\ rd.pc = "copy"
    /\ \/ /\ rd' = RdIdle
          /\ last' = Returned("getCurrentPreviewFrame", NO_ERROR, <<>>, TRUE)
          /\ scen' = -1
          /\ UNCHANGED crashed
       \/ /\ ~AccessDefined(heap, sizes, rd.from, rd.n)
          /\ crashed' = TRUE
          /\ last' = NoReturn /\ UNCHANGED <<rd, scen>>
    /\ UNCHANGED <<devVars, sizes, mObjectLock, startPc, stopPc, initPc,
                   workerVars, destroyed>>

(***************************************************************************)
(* The destructor, run while no call on the device is in progress.  It     *)
(* neither signals nor joins the worker, which goes on running on the      *)
(* released object.                                                        *)
(***************************************************************************)
Destroy ==
    /\ Alive
    /\ InProgress = {}
    /\ SetDev(Destructor(Dev))
    /\ last' = Returned("Destroy", NO_ERROR, <<>>, TRUE)
    /\ scen' = -1
    /\ destroyed' = TRUE
    /\ UNCHANGED <<sizes, callVars, workerVars, crashed>>

(***************************************************************************)
(* The base class's calls that start, signal and join the worker thread.   *)
(***************************************************************************)
\* The worker thread is started on a started device that has none.
Launch ==
    /\ Free
    /\ isStarted(mState)
    /\ wPc = "none"
    /\ captureId < MaxLaunches
    /\ wPc' = "select"
    /\ exitMsg' = FALSE
    /\ captureId' = captureId + 1
    /\ UNCHANGED <<devVars, sizes, callVars, wBuf, wN, now, pulls,
                   mCurFrameTimestamp, notes, scen, lifeVars>>
    /\ last' = NoReturn

\* The exit message is sent to the worker thread.
Signal ==
    /\ Free
    /\ wPc \in {"select", "read", "query"}
    /\ ~exitMsg
    /\ exitMsg' = TRUE
    /\ UNCHANGED <<devVars, sizes, callVars, wPc, captureId, wBuf, wN, now, pulls,
                   mCurFrameTimestamp, notes, scen, lifeVars>>
    /\ last' = NoReturn

\* The worker thread, which has ended, is joined.
Join ==
    /\ Free
    /\ Joinable(wPc)
    /\ wPc' = "none"
    /\ exitMsg' = FALSE
    /\ UNCHANGED <<devVars, sizes, callVars, captureId, wBuf, wN, now, pulls,
                   mCurFrameTimestamp, notes, scen, lifeVars>>
    /\ last' = NoReturn

(***************************************************************************)
(* The worker thread.                                                      *)
(***************************************************************************)
\* What one return of inWorkerThread does to the worker and the camera HAL.
WorkerReturns(r) ==
    /\ wPc' = IF r.ret THEN "select" ELSE "exited"
    /\ mCurFrameTimestamp' = r.ts
    /\ notes' = notes \o r.note
    /\ scen' = IF scen = -1 THEN -1
               ELSE IF \E i \in 1..Len(r.note) : r.note[i].kind = "onCameraDeviceError"
               THEN -1
               ELSE IF scen = 3 /\ r.frame THEN 4
               ELSE scen

\* The worker runs on a device that has been destroyed under it: every
\* access to a member (getWorkerThread() at line 260, mGenyClient,
\* mPreviewFrame and mTotalPixels at 267-269, mCurFrameTimestamp at 276,
\* mCameraHAL at 277 and 282) is undefined, and the process may die of it,
\* before any notification.
WorkerDies ==
    /\ destroyed
    /\ crashed' = TRUE
    /\ last' = NoReturn
    /\ UNCHANGED <<devVars, sizes, callVars, workerVars, scen, destroyed>>

\* Select returns EXIT_THREAD: the exit message has been received.
WorkerExit ==
    /\ ~crashed
    /\ wPc = "select"
    /\ Select(exitMsg) = EXIT_THREAD
    /\ \/ /\ WorkerReturns(inWorkerThread(EXIT_THREAD, NO_ERROR, now,
                                           mCurFrameTimestamp))
          /\ UNCHANGED <<devVars, sizes, callVars, exitMsg, captureId, wBuf, wN,
                         now, pulls, lifeVars>>
          /\ last' = NoReturn
       \/ WorkerDies

\* Variant in which the worker takes mObjectLock for the pull.
WorkerTimeout_TakesLock ==
    /\ ~crashed
    /\ wPc = "select"
    /\ Select(exitMsg) = TIMEOUT
    /\ pulls < MaxPulls
    /\ ~mObjectLock
    /\ mObjectLock' = TRUE
    /\ now' = now + SelectTimeout
    /\ pulls' = pulls + 1
    /\ wPc' = "read"
    /\ wBuf' \in ReadPointer(destroyed, mPreviewFrame)
    /\ wN' = -1
    /\ last' = NoReturn
    /\ UNCHANGED <<devVars, sizes, startPc, stopPc, initPc, rd, exitMsg, captureId,
                   mCurFrameTimestamp, notes, scen, lifeVars>>

\* Select returns TIMEOUT after the frame interval, and the worker reads the
\* first of mPreviewFrame and mTotalPixels for its call of queryFrame, in an
\* order the compiler chooses (-1: not read yet).  It takes no lock.
WorkerTimeout ==
    /\ ~crashed
    /\ wPc = "select"
    /\ Select(exitMsg) = TIMEOUT
    /\ pulls < MaxPulls
    /\ \/ /\ now' = now + SelectTimeout
          /\ pulls' = pulls + 1
          /\ wPc' = "read"
          /\ \/ wBuf' \in ReadPointer(destroyed, mPreviewFrame) /\ wN' = -1
             \/ wBuf' = -1 /\ wN' \in ReadSize(destroyed, mTotalPixels * 4)
          /\ last' = NoReturn
          /\ UNCHANGED <<devVars, sizes, callVars, exitMsg, captureId,
                         mCurFrameTimestamp, notes, scen, lifeVars>>
       \/ WorkerDies

\* The worker reads the other of the two and calls queryFrame.
WorkerRead ==
    /\ ~crashed
    /\ wPc = "read"
    /\ \/ /\ wPc' = "query"
          /\ wBuf' \in IF wBuf = -1 THEN ReadPointer(destroyed, mPreviewFrame)
                       ELSE {wBuf}
          /\ wN' \in IF wN = -1 THEN ReadSize(destroyed, mTotalPixels * 4)
                     ELSE {wN}
          /\ last' = NoReturn
          /\ UNCHANGED <<devVars, sizes, callVars, exitMsg, captureId, now, pulls,
                         mCurFrameTimestamp, notes, scen, lifeVars>>
       \/ WorkerDies

\* Variant that puts the device back to connected when a pull fails.
WorkerQuery_Reconciles ==
    /\ ~crashed
    /\ wPc = "query"
    /\ \E ok \in BOOLEAN :
        /\ WorkerReturns(inWorkerThread(TIMEOUT, RemoteStatus(ok), now,
                                        mCurFrameTimestamp))
        /\ mState' = IF ok THEN mState ELSE ECDS_CONNECTED
    /\ wBuf' = NULL
    /\ wN' = 0
    /\ UNCHANGED <<mPreviewFrame, heap, allocs, mTotalPixels, session, sizes,
                   callVars, exitMsg, captureId, now, pulls, lifeVars>>
    /\ last' = NoReturn

\* queryFrame returns; the frame is stamped and the camera HAL notified.  A
\* queryFrame that fills an address that holds no buffer of that size is
\* undefined: it returns, or the process dies.  On a destroyed device the
\* process may also die in the call through mGenyClient, in the store to
\* mCurFrameTimestamp or in the call through mCameraHAL.
WorkerQuery ==
    /\ ~crashed
    /\ wPc = "query"
    /\ \/ /\ \E ok \in BOOLEAN :
                WorkerReturns(inWorkerThread(TIMEOUT, RemoteStatus(ok), now,
                                             mCurFrameTimestamp))
          /\ wBuf' = NULL
          /\ wN' = 0
          /\ UNCHANGED <<devVars, sizes, callVars, exitMsg, captureId, now, pulls,
                         lifeVars>>
          /\ last' = NoReturn
       \/ /\ ~AccessDefined(heap, sizes, wBuf, wN)
          /\ crashed' = TRUE
          /\ last' = NoReturn
          /\ UNCHANGED <<devVars, sizes, callVars, workerVars, scen, destroyed>>
       \/ WorkerDies

Next ==
    \/ \E t \in InitThreads : InitializeConnect(t)
    \/ \E t \in InitThreads : InitializeBase(t)
    \/ \E t \in InitThreads : InitializeDisconnect(t)
    \/ DoConnect
    \/ DoDisconnect
    \/ DoGetDeviceInfo
    \/ StartBegin
    \/ StartAlloc
    \/ StartQuery
    \/ StopCall
    \/ DoStop
    \/ GetFrameTest
    \/ GetFrameReadFirst
    \/ GetFrameReadSecond
    \/ GetFrameEnd
    \/ Destroy
    \/ Launch
    \/ Signal
    \/ Join
    \/ WorkerExit
    \/ WorkerTimeout
    \/ WorkerRead
    \/ WorkerQuery

Spec == Init /\ [][Next]_vars

\* The same behaviours under the scheduling the threads get: a stopDevice
\* that waits for a lock that stays free takes it, and a queryFrame that
\* the frame source answers returns.
LiveSpec ==
    /\ Init /\ [][Next]_vars
    /\ WF_vars(DoStop)
    /\ WF_vars(WorkerQuery)

(***************************************************************************)
(* The transition table of the lifecycle: the status a call returns and    *)
(* the state it leaves, from the state it is made in, when all of its      *)
(* collaborators' calls succeed.                                           *)
(***************************************************************************)
LifecycleOps == {"Initialize", "Connect", "Disconnect", "Start", "Stop"}

Table(op, st) ==
    CASE op = "Initialize" ->
            IF st = ECDS_CONSTRUCTED
            THEN [res |-> NO_ERROR, mState |-> ECDS_INITIALIZED]
            ELSE [res |-> EINVAL, mState |-> st]
      [] op = "Connect" ->
            IF st = ECDS_INITIALIZED THEN [res |-> NO_ERROR, mState |-> ECDS_CONNECTED]
            ELSE IF st = ECDS_CONSTRUCTED THEN [res |-> EINVAL, mState |-> st]
            ELSE [res |-> NO_ERROR, mState |-> st]
      [] op = "Disconnect" ->
            IF st = ECDS_CONNECTED THEN [res |-> NO_ERROR, mState |-> ECDS_INITIALIZED]
            ELSE IF st = ECDS_STARTED THEN [res |-> EINVAL, mState |-> st]
            ELSE [res |-> NO_ERROR, mState |-> st]
      [] op = "Start" ->
            IF st = ECDS_CONNECTED THEN [res |-> NO_ERROR, mState |-> ECDS_STARTED]
            ELSE IF st = ECDS_STARTED THEN [res |-> NO_ERROR, mState |-> st]
            ELSE [res |-> EINVAL, mState |-> st]
      [] op = "Stop" ->
            IF st = ECDS_STARTED THEN [res |-> NO_ERROR, mState |-> ECDS_CONNECTED]
            ELSE [res |-> NO_ERROR, mState |-> st]

\* The states in which an operation returns from its guards, before any
\* remote call.
Guarded(op, st) ==
    CASE op = "Connect" -> ~isInitialized(st) \/ isConnected(st)
      [] op = "Disconnect" -> ~isConnected(st) \/ isStarted(st)
      [] op = "Start" -> ~isConnected(st) \/ isStarted(st)
      [] op = "Stop" -> ~isStarted(st)
      [] OTHER -> FALSE

\* The notifications of kind k, as positions in notes.
NotesOf(k) == {i \in 1..Len(notes) : notes[i].kind = k}

\* A step of the worker thread: Select or queryFrame returns.
WorkerStep == wPc \in {"select", "read", "query"} /\ wPc' # wPc

\* The operations whose body is being executed (a stopDevice that waits for
\* the lock has not begun its body).
Bodies == InProgress \ {<<"Stop", 0>>}

\* C1: a lifecycle call whose collaborators' calls all succeed returns the
\* status and leaves the DeviceState that the transition table gives for the
\* state it acts in (an illegal call returns EINVAL and leaves the state
\* unchanged), and DeviceState changes only in the step in which a lifecycle
\* call returns.
C1_LifecycleFollowsTable ==
    [][/\ (last'.op \in LifecycleOps /\ last'.ok) =>
              /\ last'.res = Table(last'.op, mState).res
              /\ mState' = Table(last'.op, mState).mState
       /\ mState' # mState => last'.op \in LifecycleOps]_vars

\* C1 witness: Start called on an Initialized device has returned EINVAL.
C1_Witness ==
    /\ last = Returned("Start", EINVAL, <<>>, TRUE)
    /\ mState = ECDS_INITIALIZED

\* C2: a Start made while the device is Started returns at once with
\* success, changes no field of the device (state, preview buffer,
\* allocations, session), makes no call to the remote source and leaves the
\* worker thread as it is.
C2_StartIdempotent ==
    [][/\ (last'.op = "Start" /\ isStarted(mState)) =>
              /\ last'.res = NO_ERROR
              /\ last'.calls = <<>>
              /\ Dev' = Dev
              /\ sizes' = sizes
              /\ workerVars' = workerVars
       /\ isStarted(mState) => startPc' = "idle"]_vars

\* C2 witness: Start has returned on a Started device whose loop was running.
C2_Witness ==
    /\ last = Returned("Start", NO_ERROR, <<>>, TRUE)
    /\ mState = ECDS_STARTED
    /\ mPreviewFrame # NULL
    /\ wPc = "select"

\* C3: while no startDevice is in progress, the preview buffer is allocated
\* exactly while the device is Started, and every live allocation is the one
\* mPreviewFrame points to (none leaked).
C3_BufferIffStarted ==
    (startPc = "idle" /\ ~destroyed) =>
        /\ (mPreviewFrame # NULL) <=> isStarted(mState)
        /\ heap \subseteq {mPreviewFrame}

\* C4: along the run Initialize, Connect, Start, a frame, Stop, Disconnect
\* with every call succeeding, each lifecycle call returns success, the
\* states are Initialized, Connected, Started, Connected, Initialized, and
\* once Stop has returned no preview buffer is allocated.
C4_ReferenceRun ==
    (scen >= 1) =>
        /\ last.res = NO_ERROR
        /\ mState = CASE scen = 1 -> ECDS_INITIALIZED
                      [] scen = 2 -> ECDS_CONNECTED
                      [] scen \in {3, 4} -> ECDS_STARTED
                      [] scen = 5 -> ECDS_CONNECTED
                      [] OTHER -> ECDS_INITIALIZED
        /\ (scen >= 5 => (mPreviewFrame = NULL /\ heap = {}))

\* C5: a Stop of a Started device returns only after the loop has exited, so
\* a notification is delivered only while the device is Started.
C5_NoNotificationAfterStop ==
    [][notes' # notes => isStarted(mState)]_vars

\* C6: a queryFrame that returns delivers exactly one notification; when it
\* is onCameraDeviceError the loop has ended, and a loop that has ended
\* issues no pull and delivers nothing.  (A process that dies in the worker
\* delivers nothing more.)
C6_OneErrorEndsLoop ==
    [][/\ (wPc = "query" /\ wPc' # wPc) =>
              /\ Len(notes') = Len(notes) + 1
              /\ SubSeq(notes', 1, Len(notes)) = notes
              /\ (notes'[Len(notes')].kind = "onCameraDeviceError") <=> (wPc' = "exited")
              /\ wPc' \in {"select", "exited"}
       /\ wPc = "exited" =>
              /\ notes' = notes
              /\ pulls' = pulls
              /\ wPc' \in {"exited", "none"}]_vars

\* C6 witness: the loop delivered a frame and then an error, and has ended.
C6_Witness ==
    /\ Len(notes) = 2
    /\ notes[1].kind = "onNextFrameAvailable"
    /\ notes[2].kind = "onCameraDeviceError"
    /\ wPc = "exited"

\* C7: the frames delivered carry strictly increasing timestamps, each the
\* clock value recorded in mCurFrameTimestamp when its pull returned.
C7_TimestampsIncrease ==
    /\ [](\A i \in NotesOf("onNextFrameAvailable"), j \in NotesOf("onNextFrameAvailable") :
            i < j => notes[i].ts < notes[j].ts)
    /\ [][(Len(notes') > Len(notes)
            /\ notes'[Len(notes')].kind = "onNextFrameAvailable") =>
              /\ notes'[Len(notes')].ts = now
              /\ mCurFrameTimestamp' = now
              /\ mCurFrameTimestamp < now]_vars

\* C7 witness: the loop has delivered two frames.
C7_Witness ==
    Cardinality(NotesOf("onNextFrameAvailable")) >= 2

\* C8: the step in which a lifecycle call returns an error leaves
\* DeviceState as it was, no step of a call that has not returned changes
\* it, it stays Connected while a startDevice is in progress, and a Start
\* that has returned ENOMEM has left the device Connected.
C8_ErrorKeepsState ==
    /\ [][/\ (last'.op \in LifecycleOps /\ last'.res # NO_ERROR) => mState' = mState
          /\ last'.op = "none" => mState' = mState]_vars
    /\ [](startPc # "idle" => mState = ECDS_CONNECTED)
    /\ []((last.op = "Start" /\ last.res = ENOMEM) => mState = ECDS_CONNECTED)

\* C8 witness: a Start whose allocation failed has returned ENOMEM on a
\* Connected device.
C8_Witness ==
    /\ last = Returned("Start", ENOMEM, <<>>, FALSE)
    /\ mPreviewFrame = NULL
    /\ mTotalPixels > 0
    /\ mState = ECDS_CONNECTED

\* C9: a Start that fails in the remote open-capture call returns the
\* remote error, leaves the device Connected and leaves the buffer that it
\* allocated released.
C9_FailedStartRollsBack ==
    [][(last'.op = "Start" /\ last'.calls = <<"queryStart">> /\ last'.res # NO_ERROR) =>
          /\ last'.res = RemoteUnavailable
          /\ mState' = ECDS_CONNECTED
          /\ mPreviewFrame \notin heap']_vars

\* C10: Initialize either succeeds with the device Initialized and the
\* session open, or fails with DeviceState unchanged: at connectClient with
\* nothing else done, or after the base class's Initialize with the session
\* closed.
C10_InitializeAllOrNothing ==
    [][last'.op = "Initialize" =>
          \/ /\ last'.res = NO_ERROR
             /\ mState' = ECDS_INITIALIZED
             /\ session' # "closed"
          \/ /\ last'.res # NO_ERROR
             /\ last'.calls = <<"connectClient">>
             /\ Dev' = Dev
          \/ /\ last'.res # NO_ERROR
             /\ last'.calls = <<"connectClient", "queryDisconnect">>
             /\ mState' = mState
             /\ session' = "closed"]_vars

\* C11: the bodies of the control-thread operations never overlap: at most
\* one of Initialize, startDevice and getCurrentPreviewFrame is in progress,
\* and no operation that holds the lock runs while one of them is.
C11_ControlBodiesSerialized ==
    /\ [](Cardinality(Bodies) <= 1)
    /\ [][Bodies # {} => last'.op \in {"none"} \cup {b[1] : b \in Bodies}]_vars

\* C12: a stopDevice called on a started device while the worker is inside
\* queryFrame returns; the worker takes its steps whether or not the
\* lifecycle lock is held and never changes it; the lock is never held
\* while the device is started; and a Stop of a started device whose
\* queryStop succeeds returns NO_ERROR with the device connected.
C12_StopCompletes ==
    /\ (stopPc = "called" /\ isStarted(mState) /\ wPc = "query")
          ~> (last.op = "Stop" \/ crashed)
    /\ [][WorkerStep => mObjectLock' = mObjectLock]_vars
    /\ [](isStarted(mState) => ~mObjectLock)
    /\ [][(last'.op = "Stop" /\ isStarted(mState) /\ last'.ok) =>
              (last'.res = NO_ERROR /\ mState' = ECDS_CONNECTED)]_vars

\* C12 witness: a Stop has returned with the device connected while the
\* worker was inside queryFrame.
C12_Witness ==
    /\ last = Returned("Stop", NO_ERROR, <<"queryStop">>, TRUE)
    /\ mState = ECDS_CONNECTED
    /\ wPc = "query"

\* C13: a getCurrentPreviewFrame that copies out of the preview buffer
\* copies after a successful queryFrame has written it.
C13_NoReadBeforeWrite ==
    (rd.pc = "copy" /\ rd.n > 0) => NotesOf("onNextFrameAvailable") # {}

\* C14: while no preview buffer has ever been allocated (so on every device
\* on which startDevice has never been called) mPreviewFrame is NULL, no
\* copy out of it is in progress, and a getCurrentPreviewFrame returns what
\* the base class returns, with no remote call and the device as it was.
C14_FallbackBeforeStart ==
    /\ [](allocs = 0 => (mPreviewFrame = NULL /\ rd.pc = "idle"))
    /\ [][(allocs = 0 /\ last'.op = "getCurrentPreviewFrame") =>
              /\ last'.res = BaseGetCurrentPreviewFrame
              /\ last'.calls = <<>>
              /\ Dev' = Dev]_vars

\* C14 witness: getCurrentPreviewFrame has returned on a connected device
\* that was never started.
C14_Witness ==
    /\ last = Returned("getCurrentPreviewFrame", BaseGetCurrentPreviewFrame, <<>>, TRUE)
    /\ allocs = 0
    /\ mTotalPixels = 0
    /\ startPc = "idle"
    /\ mState = ECDS_CONNECTED

\* C15: no step of the worker (Select timing out, queryFrame returning with
\* a frame or with an error, the exit message being received) changes mState
\* or any other field of the device, and the device leaves Started only in
\* the step in which a Stop returns.
C15_LoopKeepsState ==
    [][/\ (WorkerStep \/ pulls' # pulls \/ notes' # notes) =>
              (Dev' = Dev /\ sizes' = sizes)
       /\ (isStarted(mState) /\ ~isStarted(mState')) => last'.op = "Stop"]_vars

\* C15 witness: the loop has ended on a failed pull, no Stop has been
\* called, and the device is still started.
C15_Witness ==
    /\ wPc = "exited"
    /\ ~exitMsg
    /\ notes # <<>>
    /\ notes[Len(notes)].kind = "onCameraDeviceError"
    /\ stopPc = "idle"
    /\ mState = ECDS_STARTED

\* C16: while the device exists and no call is in progress, the session is
\* connected exactly when the device is connected or started and capturing
\* exactly when it is started, and queryConnect is issued only by Connect,
\* queryDisconnect only by Disconnect, queryStart only by Start and
\* queryStop only by Stop.
C16_SessionLockstep ==
    /\ (Alive /\ InProgress = {}) =>
          /\ (session \in {"connected", "capturing"}) <=> isConnected(mState)
          /\ (session = "capturing") <=> isStarted(mState)
    /\ \A i \in 1..Len(last.calls) :
          /\ last.calls[i] = "queryConnect" => last.op = "Connect"
          /\ last.calls[i] = "queryDisconnect" => last.op = "Disconnect"
          /\ last.calls[i] = "queryStart" => last.op = "Start"
          /\ last.calls[i] = "queryStop" => last.op = "Stop"

\* C17: the loop is running (waiting in Select or inside queryFrame) only
\* while the device is started.
C17_LoopOnlyWhileStarted ==
    wPc \in {"select", "read", "query"} => isStarted(mState)

\* C18: while the worker is inside queryFrame, which writes the preview
\* buffer it was given, that allocation has not been released.
C18_NoWriteToReleasedBuffer ==
    (wPc = "query" /\ wBuf # NULL) => wBuf \in heap

\* C19: short of the death of the process, the loop ends only from Select
\* with the exit message pending, with no pull and no notification in that
\* iteration, or from a queryFrame that failed; a pull begins only from
\* Select when no exit message is pending;
\* once the exit message is pending the worker's next return from Select
\* ends the loop; and a queryFrame that returns delivers one notification.
C19_LoopEndsOnExitOrError ==
    [][/\ (wPc # "exited" /\ wPc' = "exited") =>
              \/ /\ wPc = "select" /\ exitMsg
                 /\ pulls' = pulls /\ notes' = notes
              \/ /\ wPc = "query"
                 /\ Len(notes') = Len(notes) + 1
                 /\ notes'[Len(notes')].kind = "onCameraDeviceError"
       /\ pulls' # pulls => (wPc = "select" /\ ~exitMsg /\ wPc' = "read")
       /\ wPc = "read" => wPc' \in {"read", "query"}
       /\ (wPc = "select" /\ exitMsg /\ wPc' # wPc) => wPc' = "exited"
       /\ (wPc = "query" /\ wPc' # wPc) => Len(notes') = Len(notes) + 1
       /\ notes' # notes => wPc = "query"]_vars

\* C19 witness: the exit message was sent, the last pull delivered its
\* frame, and the loop then ended at Select.
C19_Witness ==
    /\ wPc = "exited"
    /\ exitMsg
    /\ notes # <<>>
    /\ notes[Len(notes)].kind = "onNextFrameAvailable"

\* C20: a Connect, Disconnect, Start or Stop that returns from its guards
\* returns NO_ERROR or EINVAL, has made no remote call and has left every
\* field of the device, the session and the worker thread as they were.
C20_GuardedCallChangesNothing ==
    [][Guarded(last'.op, mState) =>
          /\ last'.res \in {NO_ERROR, EINVAL}
          /\ last'.calls = <<>>
          /\ Dev' = Dev
          /\ sizes' = sizes
          /\ workerVars' = workerVars]_vars

\* C20 witness: Connect has returned NO_ERROR on a started device whose loop
\* is inside queryFrame.
C20_Witness ==
    /\ last = Returned("Connect", NO_ERROR, <<>>, TRUE)
    /\ wPc = "query"
    /\ mState = ECDS_STARTED

====
